---------------------------- MODULE Spec2Model ----------------------------
(***************************************************************************)
(* Model of dijkstra_with_heap (src/task_3.py): single-source shortest     *)
(* paths over an adjacency mapping, with a binary heap used as a           *)
(* lazy-deletion priority queue.                                           *)
(*                                                                         *)
(* The graph and the start vertices are the inputs, drawn in Init.  Every  *)
(* invocation of the function has its own locals (distances,               *)
(* priority_queue, visited, current_vertex, current_distance and the       *)
(* position of the for loop), indexed here by the invocation.              *)
(*                                                                         *)
(* Model of dynamic_programming (src/task_6.py): the 0/1 knapsack table    *)
(* over the items and the budget, filled row by row, and the backtracking  *)
(* pass that reads the selected items off the table.                       *)
(***************************************************************************)
EXTENDS Integers, FiniteSets, Sequences, Bags, TLC

\* ------------------------------------------------- bounds of the inputs
MaxEdges == 3           \* an input graph has at most MaxEdges edges
MaxItems == 3           \* dynamic_programming gets at most MaxItems items,
MaxCost == 2            \* of cost 1..MaxCost
MaxCalories == 2        \* and calories 0..MaxCalories,
MaxBudget == 3          \* and a budget 0..MaxBudget

Vertices == {"A", "B", "C"}     \* the vertex identifiers of the inputs
Weights == {-1, 0, 1}           \* the edge weights of the inputs
NonNegWeights == {w \in Weights : w >= 0}
Invocations == {1, 2}
Refs == {"G", "H"}              \* the graph objects a caller may pass

\* float('infinity'): compares greater than every int.  Every finite value
\* the function stores is a sum of at most MaxEdges weights of the inputs.
MaxOf(S) == CHOOSE x \in S : \A y \in S : y <= x
Infinity == MaxEdges * MaxOf(Weights) + 1
NoVertex == "-"

VARIABLES
    graph,              \* graph[r]: the adjacency mapping object r holds
    passed,             \* passed[r]: object r as it was when first passed in
    arg,                \* arg[p]: the object passed as graph to invocation p
    start,              \* start[p]: the start argument of invocation p
    pc,                 \* pc[p]: "idle", "loop", "scan", "done", "error"
    distances,          \* distances[p]: the table of invocation p
    priority_queue,     \* priority_queue[p]: bag of <<distance, vertex>>
    visited,            \* visited[p]: set of finalised vertices
    current_vertex,     \* current_vertex[p], NoVertex before the first pop
    current_distance,   \* current_distance[p]
    todo,               \* todo[p]: neighbours the for loop has yet to take
    result              \* result[p]: the returned table, <<>> when none

\* dynamic_programming (src/task_6.py).  The items are held in the order
\* of the dict's keys, item_names[i - 1] is item i.
VARIABLES
    dp_items,           \* items: sequence of [cost, calories]
    dp_budget,          \* budget
    dp,                 \* dp[i][w], i in 0..n, w in 0..budget
    dp_i,               \* i of the for loop the call is in
    dp_w,               \* w of the backtracking pass
    selected_items,     \* the keys of selected_items: a set of items
    dp_pc               \* "idle", "fill", "back", "break", "done"

dijkstra == <<graph, passed, arg, start, pc, distances, priority_queue,
              visited, current_vertex, current_distance, todo, result>>
knapsack == <<dp_items, dp_budget, dp, dp_i, dp_w, selected_items, dp_pc>>
vars == <<dijkstra, knapsack>>

\* ------------------------------------------------------------- the inputs
\* Dict[str, Dict[str, int]]: the keys K, and for every key the mapping of
\* its neighbours to weights.  A neighbour need not be a key.
MkGraph(K, E, w) ==
    [u \in K |-> [v \in {x \in Vertices : <<u, x>> \in E} |-> w[<<u, v>>]]]

EdgeSets(K, n) ==
    {E \in SUBSET (K \X Vertices) : Cardinality(E) <= n}

\* The caller holds one graph, any with at most MaxEdges edges and weights
\* in W, in both objects.
OneGraph(W) ==
    \E K \in SUBSET Vertices : \E E \in EdgeSets(K, MaxEdges) : \E w \in [E -> W] :
        graph = [r \in Refs |-> MkGraph(K, E, w)]

\* The caller holds a graph G with weights in W and a graph H with the keys
\* and edges of G and every weight, in W too, at least the weight G gives
\* the edge.
TwoGraphs(W) ==
    \E K \in SUBSET Vertices : \E E \in EdgeSets(K, MaxEdges) :
        \E w \in [E -> W] : \E heavier \in [E -> W] :
            /\ \A e \in E : heavier[e] >= w[e]
            /\ graph = [r \in Refs |->
                          IF r = "G" THEN MkGraph(K, E, w) ELSE MkGraph(K, E, heavier)]

Keys(g) == DOMAIN g
Neighbours(g, u) == DOMAIN g[u]
EdgesOf(g) == {e \in Keys(g) \X Vertices : e[2] \in Neighbours(g, e[1])}

\* ------------------------------------------------------- the heap as a bag
Entry(d, v) == <<d, v>>
Entries(pq) == BagToSet(pq)
\* Mutant of MinEntries: the queue hands out its entries in no order.
UnorderedEntries(pq) == Entries(pq)

\* heapq.heappop returns a smallest tuple: the least distance first.  Between
\* entries of equal distance the tuple comparison falls to the vertex
\* identifiers, whose order is the caller's choice of names: any of the
\* least-distance entries may be the one popped.
MinEntries(pq) ==
    {e \in Entries(pq) : \A f \in Entries(pq) : e[1] <= f[1]}
\* Mutant of HeapPush: the improved entry is written to the table and
\* nothing is pushed (line 42 missing).
NoPush(pq, e) == pq
\* Mutant of HeapPush: a decrease-key, the push replaces the entries the
\* queue holds for the vertex.
PushReplacing(pq, e) ==
    LET kept == {f \in Entries(pq) : f[2] # e[2]}
    IN  [f \in kept |-> pq[f]] (+) SetToBag({e})
\* line 42: heapq.heappush adds the tuple and removes none.
HeapPush(pq, e) == pq (+) SetToBag({e})
\* Mutant of HeapRemove: the least entry is read (priority_queue[0]) and left
\* in the queue.
HeapPeek(pq, e) == pq
HeapRemove(pq, e) == pq (-) SetToBag({e})

\* ------------------------------------------------------------- Init
\* The locals of an invocation that has not been called yet.
Idle ==
    /\ start = [p \in Invocations |-> NoVertex]
    /\ pc = [p \in Invocations |-> "idle"]
    /\ distances = [p \in Invocations |-> <<>>]
    /\ priority_queue = [p \in Invocations |-> EmptyBag]
    /\ visited = [p \in Invocations |-> {}]
    /\ current_vertex = [p \in Invocations |-> NoVertex]
    /\ current_distance = [p \in Invocations |-> 0]
    /\ todo = [p \in Invocations |-> {}]
    /\ result = [p \in Invocations |-> <<>>]

\* dynamic_programming is not called.
NoKnapsack ==
    /\ dp_items = <<>>
    /\ dp_budget = 0
    /\ dp = <<>>
    /\ dp_i = 0
    /\ dp_w = 0
    /\ selected_items = {}
    /\ dp_pc = "idle"

\* One graph object, passed to every invocation.
Init ==
    /\ OneGraph(Weights)
    /\ passed = graph
    /\ arg = [p \in Invocations |-> "G"]
    /\ Idle
    /\ NoKnapsack

\* ------------------------------------------------------------- actions
\* Mutant of InitialDistances: the table starts with the start vertex alone.
StartOnlyDistances(g, s) == [v \in {s} |-> 0]

\* lines 17-18: {vertex: inf for vertex in graph}, then distances[start] = 0,
\* which adds the key start when the graph has no such key.
InitialDistances(g, s) ==
    [v \in Keys(g) \cup {s} |-> IF v = s THEN 0 ELSE Infinity]

\* Mutant of ItemsOf: graph.get(current_vertex, {}).items(), which never raises.
ItemsOrEmpty(g, v) ==
    [raises |-> FALSE,
     neighbours |-> IF v \in Keys(g) THEN Neighbours(g, v) ELSE {}]

\* Mutant of ItemsOf: the adjacency is validated when it is read, a negative
\* weight raises an error.
ItemsValidated(g, v) ==
    [raises |-> \/ v \notin Keys(g)
                \/ \E x \in Neighbours(g, v) : g[v][x] < 0,
     neighbours |-> IF v \in Keys(g) THEN Neighbours(g, v) ELSE {}]

\* line 33: graph[current_vertex].items() raises KeyError when the vertex is
\* no key of the graph, and yields the vertex's neighbours otherwise.
ItemsOf(g, v) ==
    [raises |-> v \notin Keys(g),
     neighbours |-> IF v \in Keys(g) THEN Neighbours(g, v) ELSE {}]

\* Mutant of VisitedAdd: visited is one set of the module, shared by the calls.
VisitedAddShared(vis, p, v) == [q \in Invocations |-> vis[q] \cup {v}]

\* line 31: visited.add(current_vertex), on the invocation's own set.
VisitedAdd(vis, p, v) == [vis EXCEPT ![p] = @ \cup {v}]

\* Mutant of Skipped: the test of the visited set is missing.
NeverSkipped(vis, neighbor) == FALSE

\* lines 35-36: a neighbour already visited is skipped.
Skipped(vis, neighbor) == neighbor \in vis

\* Mutant of NewDistance: the distance of the current vertex is left out.
WeightOnly(d, weight) == weight

\* line 38
NewDistance(d, weight) == d + weight

\* Mutant of Lookup: distances.get(neighbor, float('inf')), a vertex the
\* table does not hold reads as the sentinel.
LookupOrInfinity(dist, neighbor) ==
    [raises |-> FALSE,
     value |-> IF neighbor \in DOMAIN dist THEN dist[neighbor] ELSE Infinity]
\* line 40: distances[neighbor] raises KeyError for a vertex that is no key
\* of the table, and is its entry otherwise.
Lookup(dist, neighbor) ==
    IF neighbor \in DOMAIN dist
      THEN [raises |-> FALSE, value |-> dist[neighbor]]
      ELSE [raises |-> TRUE, value |-> Infinity]

\* line 41: distances[neighbor] = new_distance; a dict assignment adds the
\* key when the table does not hold it.
Assign(dist, neighbor, new_distance) ==
    [v \in DOMAIN dist \cup {neighbor} |->
        IF v = neighbor THEN new_distance ELSE dist[v]]

\* Mutant of Improves: the candidate is written without the comparison.
AlwaysImproves(new_distance, old) == TRUE
\* line 40: the strict comparison that decides a relaxation.
Improves(new_distance, old) == new_distance < old

\* Mutant of GraphAfterEdge: the loop consumes the edge it has taken
\* (graph[current_vertex].pop(neighbor)).
GraphAfterEdgePopped(gs, r, u, v) ==
    [gs EXCEPT ![r][u] = [x \in DOMAIN @ \ {v} |-> @[x]]]

\* lines 25-42 hold no statement that writes graph or one of its adjacency
\* mappings: the objects after the for loop has taken the edge (u, v) of
\* object r.
GraphAfterEdge(gs, r, u, v) == gs

\* lines 17-23: the call, up to the first test of the while loop.
Call(p, s) ==
    /\ pc[p] = "idle"
    /\ start' = [start EXCEPT ![p] = s]
    /\ distances' = [distances EXCEPT ![p] = InitialDistances(graph[arg[p]], s)]
    /\ priority_queue' = [priority_queue EXCEPT ![p] = SetToBag({Entry(0, s)})]
    /\ visited' = [visited EXCEPT ![p] = {}]
    /\ pc' = [pc EXCEPT ![p] = "loop"]
    /\ UNCHANGED <<graph, passed, arg, current_vertex, current_distance,
                   todo, result, knapsack>>

\* Mutant of AlreadyVisited: the test of line 28 is missing, every popped
\* entry is processed.
NeverVisited(vis, v) == FALSE
\* line 28: the test that discards a popped entry.
AlreadyVisited(vis, v) == v \in vis

\* lines 25-29: pop an entry whose vertex is already visited, and continue.
PopStale(p) ==
    /\ pc[p] = "loop"
    /\ \E e \in MinEntries(priority_queue[p]) :
        /\ AlreadyVisited(visited[p], e[2])
        /\ priority_queue' = [priority_queue EXCEPT ![p] = HeapRemove(@, e)]
        /\ current_distance' = [current_distance EXCEPT ![p] = e[1]]
        /\ current_vertex' = [current_vertex EXCEPT ![p] = e[2]]
    /\ UNCHANGED <<graph, passed, arg, start, pc, distances, visited, todo,
                   result, knapsack>>

\* lines 25-33: pop an entry of an unvisited vertex, mark it visited and
\* start the for loop over graph[current_vertex].items(); the subscript
\* raises KeyError when the vertex is no key of the graph.
PopVisit(p) ==
    /\ pc[p] = "loop"
    /\ \E e \in MinEntries(priority_queue[p]) :
        /\ ~AlreadyVisited(visited[p], e[2])
        /\ priority_queue' = [priority_queue EXCEPT ![p] = HeapRemove(@, e)]
        /\ current_distance' = [current_distance EXCEPT ![p] = e[1]]
        /\ current_vertex' = [current_vertex EXCEPT ![p] = e[2]]
        /\ visited' = VisitedAdd(visited, p, e[2])
        /\ LET items == ItemsOf(graph[arg[p]], e[2])
           IN  IF items.raises
                 THEN /\ todo' = todo
                      /\ pc' = [pc EXCEPT ![p] = "error"]
                 ELSE /\ todo' = [todo EXCEPT ![p] = items.neighbours]
                      /\ pc' = [pc EXCEPT ![p] =
                            IF items.neighbours = {} THEN "loop" ELSE "scan"]
    /\ UNCHANGED <<graph, passed, arg, start, distances, result, knapsack>>

\* lines 33-42: one iteration of the for loop, for the next neighbour in the
\* order of the adjacency mapping (the caller's insertion order: any order).
\* distances[neighbor] raises KeyError when the neighbour is no key of the
\* table.  After the last neighbour the while loop tests the queue again.
Relax(p) ==
    /\ pc[p] = "scan"
    /\ \E neighbor \in todo[p] :
        LET weight == graph[arg[p]][current_vertex[p]][neighbor]
            new_distance == NewDistance(current_distance[p], weight)
            rest == todo[p] \ {neighbor}
            after == IF rest = {} THEN "loop" ELSE "scan"
        IN  /\ todo' = [todo EXCEPT ![p] = rest]
            /\ graph' = GraphAfterEdge(graph, arg[p], current_vertex[p], neighbor)
            /\ IF Skipped(visited[p], neighbor)
                 THEN /\ pc' = [pc EXCEPT ![p] = after]
                      /\ UNCHANGED <<distances, priority_queue>>
                 ELSE IF Lookup(distances[p], neighbor).raises
                 THEN /\ pc' = [pc EXCEPT ![p] = "error"]
                      /\ UNCHANGED <<distances, priority_queue>>
                 ELSE IF Improves(new_distance, Lookup(distances[p], neighbor).value)
                 THEN /\ distances' = [distances EXCEPT ![p] =
                                         Assign(@, neighbor, new_distance)]
                      /\ priority_queue' = [priority_queue EXCEPT ![p] =
                                              HeapPush(@, Entry(new_distance, neighbor))]
                      /\ pc' = [pc EXCEPT ![p] = after]
                 ELSE /\ pc' = [pc EXCEPT ![p] = after]
                      /\ UNCHANGED <<distances, priority_queue>>
    /\ UNCHANGED <<passed, arg, start, visited, current_vertex,
                   current_distance, result, knapsack>>

\* lines 25, 44: the queue is empty, the loop ends and the table is returned.
Return(p) ==
    /\ pc[p] = "loop"
    /\ priority_queue[p] = EmptyBag
    /\ result' = [result EXCEPT ![p] = distances[p]]
    /\ pc' = [pc EXCEPT ![p] = "done"]
    /\ UNCHANGED <<graph, passed, arg, start, distances, priority_queue,
                   visited, current_vertex, current_distance, todo,
                   knapsack>>

\* The steps of invocation p after its call.
Run(p) ==
    \/ PopStale(p)
    \/ PopVisit(p)
    \/ Relax(p)
    \/ Return(p)

\* ------------------------------------------- the function as one step
\* lines 33-42 for the neighbours of todo, one after the other, of a vertex
\* popped at distance d: the table and the queue after the for loop, or the
\* failure of distances[neighbor].
RECURSIVE ScanAll(_, _, _, _, _, _)
ScanAll(adj, d, dist, pq, vis, rest) ==
    IF rest = {} THEN [raises |-> FALSE, dist |-> dist, pq |-> pq]
    ELSE LET neighbor == CHOOSE x \in rest : TRUE
             new_distance == NewDistance(d, adj[neighbor])
         IN  IF Skipped(vis, neighbor)
               THEN ScanAll(adj, d, dist, pq, vis, rest \ {neighbor})
             ELSE IF Lookup(dist, neighbor).raises
               THEN [raises |-> TRUE, dist |-> dist, pq |-> pq]
             ELSE IF Improves(new_distance, Lookup(dist, neighbor).value)
               THEN ScanAll(adj, d, Assign(dist, neighbor, new_distance),
                            HeapPush(pq, Entry(new_distance, neighbor)), vis,
                            rest \ {neighbor})
             ELSE ScanAll(adj, d, dist, pq, vis, rest \ {neighbor})

\* lines 25-44 from a state of the while loop to the end of the call: the
\* tables the call can return, and NoTable when it can fail.
NoTable == <<>>
RECURSIVE LoopOutcomes(_, _, _, _)
LoopOutcomes(g, dist, pq, vis) ==
    IF pq = EmptyBag THEN {dist}
    ELSE UNION {
        LET popped == HeapRemove(pq, e)
            items == ItemsOf(g, e[2])
        IN  IF AlreadyVisited(vis, e[2]) THEN LoopOutcomes(g, dist, popped, vis)
            ELSE IF items.raises THEN {NoTable}
            ELSE LET scan == ScanAll(g[e[2]], e[1], dist, popped,
                                     vis \cup {e[2]}, items.neighbours)
                 IN  IF scan.raises THEN {NoTable}
                     ELSE LoopOutcomes(g, scan.dist, scan.pq, vis \cup {e[2]})
        : e \in MinEntries(pq)}

\* dijkstra_with_heap(g, s), run on its own.
AloneOutcomes(g, s) ==
    LoopOutcomes(g, InitialDistances(g, s), SetToBag({Entry(0, s)}), {})

\* ------------------------------------------------------ specifications
\* One invocation, on any graph and any start vertex.
Next ==
    \/ \E s \in Vertices : Call(1, s)
    \/ Run(1)

Spec == Init /\ [][Next]_vars


\* Two invocations on the same graph object, their steps interleaved in any
\* order; the graph's weights are non-negative.
InitPar ==
    /\ OneGraph(NonNegWeights)
    /\ passed = graph
    /\ arg = [p \in Invocations |-> "G"]
    /\ Idle
    /\ NoKnapsack

NextPar ==
    \E p \in Invocations :
        \/ \E s \in Vertices : Call(p, s)
        \/ Run(p)

SpecPar == InitPar /\ [][NextPar]_vars

\* Two calls one after the other with the same start vertex: the first on a
\* graph G with non-negative weights, the second on a graph H with the keys
\* and edges of G and every weight at least the weight G gives the edge.
InitMono ==
    /\ TwoGraphs(NonNegWeights)
    /\ passed = graph
    /\ arg = [p \in Invocations |-> IF p = 1 THEN "G" ELSE "H"]
    /\ Idle
    /\ NoKnapsack

NextMono ==
    \/ \E s \in Vertices : Call(1, s)
    \/ Run(1)
    \/ pc[1] \in {"done", "error"} /\ Call(2, start[1])
    \/ Run(2)

SpecMono == InitMono /\ [][NextMono]_vars

\* The edge set has a vertex v with edges into it from two other vertices
\* u1 and u2, an edge from u1 to u2, and an edge out of v: from u1 the queue
\* can hold two entries for v, and v has neighbours to scan.
HasJoin(E) ==
    \E u1 \in Vertices : \E u2 \in Vertices \ {u1} :
        \E v \in Vertices \ {u1, u2} :
            /\ {<<u1, v>>, <<u2, v>>, <<u1, u2>>} \subseteq E
            /\ \E x \in Vertices : <<v, x>> \in E

\* One invocation on a graph whose every vertex is a key and whose edges,
\* one more than the other specifications allow, include such a join.
InitJoin ==
    /\ \E E \in EdgeSets(Vertices, MaxEdges + 1) : \E w \in [E -> Weights] :
        /\ HasJoin(E)
        /\ graph = [r \in Refs |-> MkGraph(Vertices, E, w)]
    /\ passed = graph
    /\ arg = [p \in Invocations |-> "G"]
    /\ Idle
    /\ NoKnapsack

SpecJoin == InitJoin /\ [][Next]_vars

\* The interpreter runs a called invocation to its end: a step that can be
\* taken is taken.
FairSpec == Init /\ [][Next]_vars /\ WF_vars(Run(1))

\* ------------------------------------- dynamic_programming (src/task_6.py)
\* The inputs: items of positive cost and non-negative calories, in the
\* order of the dict, and a budget that is not negative.
ItemDetails == [cost : 1..MaxCost, calories : 0..MaxCalories]
ItemLists == UNION {[1..n -> ItemDetails] : n \in 0..MaxItems}
Budgets == 0..MaxBudget

\* line 91: max of two ints.
Max2(a, b) == IF a >= b THEN a ELSE b

\* Mutant of Cell: the item is taken only when it leaves some budget over
\* (cost < w).
CellStrict(prev, w, cost, calories) ==
    IF cost < w THEN Max2(prev[w], prev[w - cost] + calories) ELSE prev[w]
\* lines 90-93: dp[i][w] from the row dp[i - 1].
Cell(prev, w, cost, calories) ==
    IF cost <= w THEN Max2(prev[w], prev[w - cost] + calories) ELSE prev[w]

\* lines 77-81: item_names, n and the table of zeros.
DPCall ==
    /\ dp_pc = "idle"
    /\ dp' = [i \in 0..Len(dp_items) |-> [w \in 0..dp_budget |-> 0]]
    /\ dp_i' = 1
    /\ dp_pc' = "fill"
    /\ UNCHANGED <<dp_items, dp_budget, dp_w, selected_items, dijkstra>>

\* lines 84-93: one iteration of the outer for loop, the whole row i.
FillRow ==
    /\ dp_pc = "fill"
    /\ dp_i <= Len(dp_items)
    /\ LET cost == dp_items[dp_i].cost
           calories == dp_items[dp_i].calories
       IN  dp' = [dp EXCEPT ![dp_i] =
                    [w \in 0..dp_budget |-> Cell(dp[dp_i - 1], w, cost, calories)]]
    /\ dp_i' = dp_i + 1
    /\ UNCHANGED <<dp_items, dp_budget, dp_w, selected_items, dp_pc, dijkstra>>

\* lines 96-99: the table is filled, the backtracking pass starts at item n
\* with the whole budget.
StartBacktrack ==
    /\ dp_pc = "fill"
    /\ dp_i = Len(dp_items) + 1
    /\ selected_items' = {}
    /\ dp_w' = dp_budget
    /\ dp_i' = Len(dp_items)
    /\ dp_pc' = "back"
    /\ UNCHANGED <<dp_items, dp_budget, dp, dijkstra>>

\* lines 99-108: one iteration of the backtracking loop.
Backtrack ==
    /\ dp_pc = "back"
    /\ dp_i >= 1
    /\ IF dp[dp_i][dp_w] # dp[dp_i - 1][dp_w]
         THEN LET left == dp_w - dp_items[dp_i].cost
              IN  /\ selected_items' = selected_items \cup {dp_i}
                  /\ dp_w' = left
                  /\ IF left < 0
                       THEN dp_pc' = "break" /\ dp_i' = dp_i
                       ELSE dp_pc' = "back" /\ dp_i' = dp_i - 1
         ELSE /\ dp_i' = dp_i - 1
              /\ UNCHANGED <<selected_items, dp_w, dp_pc>>
    /\ UNCHANGED <<dp_items, dp_budget, dp, dijkstra>>

\* line 110: the loop is over, or was left by the break.
DPReturn ==
    /\ dp_pc \in {"back", "break"}
    /\ dp_pc = "back" => dp_i = 0
    /\ dp_pc' = "done"
    /\ UNCHANGED <<dp_items, dp_budget, dp, dp_i, dp_w, selected_items,
                   dijkstra>>

\* One call of dynamic_programming, on any items and any budget; no call of
\* dijkstra_with_heap.
InitKnapsack ==
    /\ graph = [r \in Refs |-> <<>>]
    /\ passed = graph
    /\ arg = [p \in Invocations |-> "G"]
    /\ Idle
    /\ dp_items \in ItemLists
    /\ dp_budget \in Budgets
    /\ dp = <<>>
    /\ dp_i = 0
    /\ dp_w = 0
    /\ selected_items = {}
    /\ dp_pc = "idle"

NextKnapsack ==
    \/ DPCall
    \/ FillRow
    \/ StartBacktrack
    \/ Backtrack
    \/ DPReturn

SpecKnapsack == InitKnapsack /\ [][NextKnapsack]_vars

\* What the claim compares the selection with: the total of a field over a
\* set of items, the sets of items the budget pays for, and the most
\* calories such a set has.
RECURSIVE Total(_, _, _)
Total(its, S, field) ==
    IF S = {} THEN 0
    ELSE LET x == CHOOSE y \in S : TRUE
         IN  its[x][field] + Total(its, S \ {x}, field)
Affordable(its, b) ==
    {S \in SUBSET DOMAIN its : Total(its, S, "cost") <= b}
BestCalories(its, b) ==
    MaxOf({Total(its, S, "calories") : S \in Affordable(its, b)})

\* ------------------------------------------------ reference definitions
\* What the claims compare the function's table with.
NonNegative(g) == \A e \in EdgesOf(g) : g[e[1]][e[2]] >= 0
WellFormed(g) == \A e \in EdgesOf(g) : e[2] \in Keys(g)
MinOf(S) == CHOOSE x \in S : \A y \in S : x <= y

\* The total weights of the directed paths from u to v that repeat no vertex
\* and avoid the vertices of seen.  Under non-negative weights a path that
\* repeats a vertex weighs no less than the one with the cycle cut out, so
\* the least of these is the least over all directed paths.
RECURSIVE PathWeights(_, _, _, _)
PathWeights(g, u, v, seen) ==
    IF u = v THEN {0}
    ELSE IF u \notin Keys(g) THEN {}
    ELSE UNION {{g[u][x] + t : t \in PathWeights(g, x, v, seen \cup {u})}
                : x \in Neighbours(g, u) \ (seen \cup {u})}

Reachable(g, s, v) == PathWeights(g, s, v, {}) # {}
ShortestDistance(g, s, v) ==
    IF Reachable(g, s, v) THEN MinOf(PathWeights(g, s, v, {})) ELSE Infinity

Called(p) == pc[p] # "idle"
Returned(p) == pc[p] = "done"
Failed(p) == pc[p] = "error"
GraphOf(p) == graph[arg[p]]
\* The precondition of the contract: non-negative weights, every neighbour a
\* key, the start vertex a key.
ValidCall(p) ==
    /\ Called(p)
    /\ NonNegative(GraphOf(p))
    /\ WellFormed(GraphOf(p))
    /\ start[p] \in Keys(GraphOf(p))

\* ------------------------------------------------------------- claims
\* C1: on a graph with non-negative weights whose neighbours are all keys and
\* a start vertex that is a key, the returned table maps every vertex to the
\* least total weight of a directed path from start to it, and to the
\* infinite sentinel when there is no such path.
C1_ShortestDistances ==
    \A p \in Invocations :
        (Returned(p) /\ ValidCall(p)) =>
            \A v \in Keys(GraphOf(p)) :
                /\ v \in DOMAIN result[p]
                /\ result[p][v] = ShortestDistance(GraphOf(p), start[p], v)

\* A returned table in which a vertex got a distance strictly below the
\* weight of its direct edge from start (the path through a third vertex won).
C1_Witness ==
    /\ Returned(1) /\ ValidCall(1)
    /\ \E v \in Neighbours(GraphOf(1), start[1]) :
        /\ v # start[1]
        /\ result[1][v] < GraphOf(1)[start[1]][v]

\* C2: when start is no key of the graph the call fails with an error and
\* returns no table: after the call it is either about to make the first pop
\* or has failed, and no table is ever returned.
C2_AbsentStartFails ==
    \A p \in Invocations :
        (Called(p) /\ start[p] \notin Keys(GraphOf(p))) =>
            /\ result[p] = <<>>
            /\ \/ Failed(p)
               \/ pc[p] = "loop" /\ visited[p] = {}
                    /\ priority_queue[p] = SetToBag({Entry(0, start[p])})

\* The call has failed on a graph that has keys, start not among them.
C2_Witness ==
    /\ Failed(1)
    /\ start[1] \notin Keys(GraphOf(1))
    /\ Keys(GraphOf(1)) # {}

\* C3: when start is a key and every neighbour is a key, the keys of the
\* returned table are exactly the keys of the graph, and a vertex no path
\* reaches is present with the infinite sentinel.
C3_ExactKeySet ==
    \A p \in Invocations :
        (Returned(p) /\ WellFormed(GraphOf(p)) /\ start[p] \in Keys(GraphOf(p))) =>
            /\ DOMAIN result[p] = Keys(GraphOf(p))
            /\ \A v \in Keys(GraphOf(p)) :
                ~Reachable(GraphOf(p), start[p], v) => result[p][v] = Infinity

\* A returned table with a reached vertex besides start and an unreachable one.
C3_Witness ==
    /\ Returned(1) /\ WellFormed(GraphOf(1))
    /\ \E v \in Keys(GraphOf(1)) :
        ~Reachable(GraphOf(1), start[1], v) /\ result[1][v] = Infinity
    /\ \E v \in Keys(GraphOf(1)) \ {start[1]} : result[1][v] < Infinity

\* C4: for a start vertex that is a key, distances[start] is 0 in every state
\* after the initialisation and in the returned table, whatever the graph.
C4_StartIsZero ==
    \A p \in Invocations :
        (Called(p) /\ start[p] \in Keys(GraphOf(p))) =>
            /\ distances[p][start[p]] = 0
            /\ Returned(p) => result[p][start[p]] = 0

\* A returned table for a start vertex with a self-loop of negative weight
\* that also lies on a cycle through another vertex.
C4_Witness ==
    /\ Returned(1)
    /\ start[1] \in Keys(GraphOf(1))
    /\ start[1] \in Neighbours(GraphOf(1), start[1])
    /\ GraphOf(1)[start[1]][start[1]] < 0
    /\ \E v \in Keys(GraphOf(1)) \ {start[1]} :
        /\ v \in Neighbours(GraphOf(1), start[1])
        /\ start[1] \in Neighbours(GraphOf(1), v)

\* A vertex that a path from start reaches has a neighbour which is no key of
\* the graph.
Dangling(g, s) ==
    \E e \in EdgesOf(g) : Reachable(g, s, e[1]) /\ e[2] \notin Keys(g)

\* C5 (as amended): on every finite graph, every call with start a key ends;
\* it returns with the queue empty when no reached vertex has a neighbour that
\* is no key, and fails with an error when one has.
C5_Terminates ==
    \A p \in {1} :
        (Called(p) /\ start[p] \in Keys(GraphOf(p))) ~>
            \/ /\ Returned(p)
               /\ priority_queue[p] = EmptyBag
               /\ ~Dangling(GraphOf(p), start[p])
            \/ /\ Failed(p)
               /\ Dangling(GraphOf(p), start[p])

\* C5 (as stated): on every graph, with start a key, the call goes on until the
\* queue is empty and the function returns.  Were that so, a call that has
\* not returned could always take a step (checked on the graphs with
\* non-negative weights).
C5_AlwaysReturns ==
    \A p \in {1} :
        (Called(p) /\ start[p] \in Keys(GraphOf(p)) /\ NonNegative(GraphOf(p))) =>
            \/ Returned(p) /\ priority_queue[p] = EmptyBag
            \/ ENABLED Run(p)

\* A call that returned on a graph with a cycle of negative weight through
\* start.
C5_Witness ==
    /\ Returned(1)
    /\ priority_queue[1] = EmptyBag
    /\ \E v \in Keys(GraphOf(1)) \ {start[1]} :
        /\ v \in Neighbours(GraphOf(1), start[1])
        /\ start[1] \in Neighbours(GraphOf(1), v)
        /\ GraphOf(1)[start[1]][v] < 0
        /\ GraphOf(1)[v][start[1]] < 0

SameInputs(p, q) == Called(p) /\ Called(q) /\ arg[p] = arg[q] /\ start[p] = start[q]

C7_GraphUnchanged == graph = passed

\* A call that has taken edges of the graph and ended.
C7_Witness ==
    /\ Returned(1) \/ Failed(1)
    /\ Cardinality(visited[1]) >= 2
    /\ Cardinality(EdgesOf(GraphOf(1))) >= 2

SameShape(g, h) ==
    /\ Keys(g) = Keys(h)
    /\ \A u \in Keys(g) : Neighbours(g, u) = Neighbours(h, u)
HeavierThan(h, g) ==
    \A e \in EdgesOf(g) : h[e[1]][e[2]] >= g[e[1]][e[2]]

\* C8: for graphs G and H with non-negative weights, the same keys and edges
\* and every weight of H at least that of G, and the same start, no vertex's
\* distance returned for H is below the one returned for G.
C8_MonotoneInWeights ==
    \A p \in Invocations : \A q \in Invocations :
        ( /\ Returned(p) /\ Returned(q) /\ start[p] = start[q]
          /\ NonNegative(GraphOf(p)) /\ NonNegative(GraphOf(q))
          /\ SameShape(GraphOf(p), GraphOf(q))
          /\ HeavierThan(GraphOf(q), GraphOf(p)) ) =>
            \A v \in DOMAIN result[p] :
                v \in DOMAIN result[q] /\ result[q][v] >= result[p][v]

\* Both calls returned, H has a strictly heavier edge and a vertex's distance
\* is strictly greater for H than for G.
C8_Witness ==
    /\ Returned(1) /\ Returned(2)
    /\ graph["H"] # graph["G"]
    /\ \E v \in DOMAIN result[1] :
        result[1][v] < result[2][v] /\ result[2][v] < Infinity

LocalsOf(p) ==
    <<start[p], pc[p], distances[p], priority_queue[p], visited[p],
      current_vertex[p], current_distance[p], todo[p], result[p]>>

\* An invocation that has ended has ended as the function can end when run on
\* its own, with one of the tables it can return then.
C9_EndsAsAlone ==
    \A p \in Invocations :
        /\ Returned(p) => result[p] \in AloneOutcomes(GraphOf(p), start[p]) \ {NoTable}
        /\ Failed(p) => NoTable \in AloneOutcomes(GraphOf(p), start[p])

\* A step changes the locals of one invocation at most.
C9_OneInvocationPerStep ==
    \E p \in Invocations :
        \A q \in Invocations \ {p} : LocalsOf(q)' = LocalsOf(q)

\* C9: two invocations on the same graph, their steps interleaved in any
\* order: a step of one leaves the table, the visited set, the queue and the
\* other locals of the other as they were, and each returns the table it
\* returns when run on its own.
C9_Isolation == [][C9_OneInvocationPerStep]_vars /\ []C9_EndsAsAlone

\* Both invocations returned, from different start vertices, each with a
\* table that holds a vertex it reached, and the tables differ.
C9_Witness ==
    /\ Returned(1) /\ Returned(2)
    /\ start[1] # start[2]
    /\ arg[1] = arg[2]
    /\ result[1] # result[2]
    /\ \A p \in Invocations : Cardinality(visited[p]) >= 2

\* No step changes the entry of a vertex that is in the visited set.
C10_VisitedKeepsDistance ==
    \A p \in Invocations : \A v \in visited[p] :
        distances'[p][v] = distances[p][v]

\* Under non-negative weights the entry of a visited vertex is the least
\* total weight of a path from start to it.
C10_VisitedIsShortest ==
    \A p \in Invocations :
        NonNegative(GraphOf(p)) =>
            \A v \in visited[p] :
                distances[p][v] = ShortestDistance(GraphOf(p), start[p], v)

\* C10: once a vertex is in the visited set its entry of the table never
\* changes, and under non-negative weights the entry is already the least
\* total weight of a path from start to it.
C10_Finality == [][C10_VisitedKeepsDistance]_vars /\ []C10_VisitedIsShortest

\* A visited vertex whose entry was improved before it was visited: the
\* queue still holds its superseded entry.
C10_Witness ==
    /\ NonNegative(GraphOf(1))
    /\ \E e \in Entries(priority_queue[1]) :
        /\ e[2] \in visited[1]
        /\ e[1] > distances[1][e[2]]

\* A step of invocation p that pops an entry: the while loop is at its test
\* and the step changes the queue.
Pops(p) == pc[p] = "loop" /\ priority_queue'[p] # priority_queue[p]

\* The entry the step pops is the pair left in the two locals.
C11_PoppedIsCurrent ==
    \A p \in Invocations :
        Pops(p) =>
            LET d == current_distance'[p]
                v == current_vertex'[p]
            IN  /\ Entry(d, v) \in Entries(priority_queue[p])
                /\ v \notin visited[p] => d = distances[p][v]
                /\ d # distances[p][v] => v \in visited[p]

\* C11: whenever an entry (d, v) is popped and v is not yet visited, d equals
\* distances[v] at that moment; a popped entry whose d differs from
\* distances[v] belongs to an already visited vertex.
C11_StaleMeansVisited == [][C11_PoppedIsCurrent]_vars

\* The last pop took a superseded entry: its distance is not the entry of
\* its vertex, and the vertex had been visited before.
C11_Witness ==
    /\ pc[1] = "loop"
    /\ current_vertex[1] \in visited[1]
    /\ current_distance[1] # distances[1][current_vertex[1]]

\* The while loop of invocation p has ended, or is at the test that ends it.
LoopExits(p) ==
    \/ Returned(p)
    \/ pc[p] = "loop" /\ priority_queue[p] = EmptyBag

\* C12: when the loop exits with an empty queue, every vertex of the graph
\* is in the visited set or still holds the infinite sentinel; no unvisited
\* vertex holds a finite distance.
C12_VisitedOrInfinite ==
    \A p \in Invocations :
        LoopExits(p) =>
            \A v \in Keys(GraphOf(p)) :
                v \in visited[p] \/ distances[p][v] = Infinity

\* The loop has ended with a vertex visited besides start and a vertex left
\* at the sentinel.
C12_Witness ==
    /\ Returned(1)
    /\ \E v \in Keys(GraphOf(1)) : v \in visited[1] /\ v # start[1]
    /\ \E v \in Keys(GraphOf(1)) :
        v \notin visited[1] /\ distances[1][v] = Infinity

\* A step of invocation p after its call keeps the keys of the table, raises
\* no entry, and lowers an entry only in an iteration of the for loop: the
\* new value is the candidate of the edge from current_vertex, is strictly
\* below the old one, and the step pushes the pair (candidate, vertex) and
\* changes the queue in no other way.
C13_OnlyRelaxationLowers ==
    \A p \in Invocations :
        Called(p) =>
            /\ DOMAIN distances'[p] = DOMAIN distances[p]
            /\ \A v \in DOMAIN distances[p] :
                /\ distances'[p][v] <= distances[p][v]
                /\ distances'[p][v] # distances[p][v] =>
                    /\ pc[p] = "scan"
                    /\ v \in todo[p] /\ v \notin todo'[p]
                    /\ distances'[p][v] =
                         current_distance[p]
                           + GraphOf(p)[current_vertex[p]][v]
                    /\ distances'[p][v] < distances[p][v]
                    /\ priority_queue'[p] =
                         priority_queue[p]
                           (+) SetToBag({Entry(distances'[p][v], v)})

\* C13: over one run each entry of the distance table is non-increasing from
\* step to step, and after initialisation an entry changes only in a
\* relaxation step, which sets it to a strictly smaller candidate and pushes
\* (candidate, vertex) in the same step.
C13_DistancesOnlyImprove == [][C13_OnlyRelaxationLowers]_vars

\* An entry that was lowered twice: the table holds a finite value for a
\* vertex and the queue still holds a larger one pushed for it earlier.
C13_Witness ==
    \E e \in Entries(priority_queue[1]) :
        /\ e[2] \in DOMAIN distances[1]
        /\ e[2] \notin visited[1]
        /\ distances[1][e[2]] < e[1]

\* A step of invocation p removes no vertex from the visited set; it adds a
\* vertex only by popping an entry of a vertex that is not in the set, and
\* adds that vertex alone; the for loop over the neighbours is entered only
\* by such a step, and stays with the vertex of that visit.
C14_VisitedOncePerVertex ==
    \A p \in Invocations :
        /\ visited[p] \subseteq visited'[p]
        /\ visited'[p] # visited[p] =>
            /\ Pops(p)
            /\ current_vertex'[p] \notin visited[p]
            /\ visited'[p] = visited[p] \cup {current_vertex'[p]}
        /\ pc[p] = "loop" /\ pc'[p] = "scan" =>
            /\ current_vertex'[p] \notin visited[p]
            /\ current_vertex'[p] \in visited'[p]
            /\ todo'[p] = Neighbours(GraphOf(p), current_vertex'[p])
        /\ pc[p] = "scan" =>
            /\ current_vertex'[p] = current_vertex[p]
            /\ todo'[p] \subseteq todo[p]

\* C14: the visited set only grows during a run; a vertex is added to it at
\* most once, however many queue entries exist for it, and its neighbours
\* are scanned only on that single visit.
C14_VisitedGrows == [][C14_VisitedOncePerVertex]_vars

\* The call returned after every vertex was visited, and its last pop took a
\* second entry of a vertex that was visited before and has neighbours.
C14_Witness ==
    /\ Returned(1)
    /\ visited[1] = Vertices
    /\ current_distance[1] # distances[1][current_vertex[1]]
    /\ Neighbours(GraphOf(1), current_vertex[1]) # {}

\* A pop of an entry whose vertex is in the visited set takes that one entry
\* out of the queue and changes nothing else of the invocation; an iteration
\* of the for loop takes no entry out of the queue.
C15_DiscardAndKeep ==
    \A p \in Invocations :
        /\ Pops(p) /\ current_vertex'[p] \in visited[p] =>
            LET e == Entry(current_distance'[p], current_vertex'[p])
            IN  /\ BagIn(e, priority_queue[p])
                /\ priority_queue'[p] = priority_queue[p] (-) SetToBag({e})
                /\ distances'[p] = distances[p]
                /\ visited'[p] = visited[p]
                /\ todo'[p] = todo[p]
                /\ pc'[p] = "loop"
        /\ pc[p] = "scan" =>
            \A e \in Entries(priority_queue[p]) :
                CopiesIn(e, priority_queue'[p]) >= CopiesIn(e, priority_queue[p])

\* C15: popping an entry whose vertex is already visited is a pure discard,
\* it removes that one entry and leaves the distance table and the visited
\* set unchanged and pushes nothing; a relaxation never removes the
\* superseded older entry of the improved vertex from the queue.
C15_LazyDeletion == [][C15_DiscardAndKeep]_vars

\* The superseded entry of a vertex stayed in the queue through the
\* relaxation that improved the vertex and was the last entry popped.
C15_Witness ==
    /\ pc[1] = "loop"
    /\ priority_queue[1] = EmptyBag
    /\ current_vertex[1] \in visited[1]
    /\ current_distance[1] > distances[1][current_vertex[1]]

\* The vertices the call may hold in its table and its queue: the keys of
\* the graph, and start (line 18 writes its entry whether or not it is a key).
Registered(p) == Keys(GraphOf(p)) \cup {start[p]}

\* An iteration of the for loop that takes a neighbour that is no key of the
\* graph ends the call with the error and leaves the table and the queue as
\* they were.
C16_DanglingEdgeFails ==
    \A p \in Invocations :
        pc[p] = "scan" =>
            \A neighbor \in todo[p] \ todo'[p] :
                neighbor \notin Keys(GraphOf(p)) =>
                    /\ pc'[p] = "error"
                    /\ distances'[p] = distances[p]
                    /\ priority_queue'[p] = priority_queue[p]

\* The table and the queue hold registered vertices only; a failed call has
\* returned no table; and a visited vertex with an edge to a vertex that is
\* no key either has that edge still ahead in its for loop or the call has
\* failed.
C16_NoVertexAdded ==
    \A p \in Invocations :
        Called(p) =>
            /\ DOMAIN distances[p] \subseteq Registered(p)
            /\ \A e \in Entries(priority_queue[p]) : e[2] \in Registered(p)
            /\ Failed(p) => result[p] = NoTable
            /\ \A u \in visited[p] \cap Keys(GraphOf(p)) :
                \A neighbor \in Neighbours(GraphOf(p), u) \ Keys(GraphOf(p)) :
                    \/ Failed(p)
                    \/ /\ pc[p] = "scan"
                       /\ current_vertex[p] = u
                       /\ neighbor \in todo[p]

\* C16: the function never registers a vertex by itself: when a visited
\* vertex has an edge to a neighbour that is no key of the graph, the call
\* fails with an error at that relaxation and returns no table, and the
\* neighbour is never added to the distance table or the queue.
C16_NoAutoRegistration == [][C16_DanglingEdgeFails]_vars /\ []C16_NoVertexAdded

\* The call failed in the for loop of a vertex other than start, at an edge
\* to a vertex that is no key, after the table had been improved.
C16_Witness ==
    /\ Failed(1)
    /\ start[1] \in Keys(GraphOf(1))
    /\ current_vertex[1] \in Keys(GraphOf(1)) \ {start[1]}
    /\ Neighbours(GraphOf(1), current_vertex[1]) \ Keys(GraphOf(1)) # {}
    /\ distances[1][current_vertex[1]] < Infinity

\* Invocation p was called with start a key, on a graph whose every
\* neighbour is a key and that has an edge of negative weight.
NegativeCall(p) ==
    /\ Called(p)
    /\ start[p] \in Keys(GraphOf(p))
    /\ WellFormed(GraphOf(p))
    /\ ~NonNegative(GraphOf(p))

\* Such a call raises no error, and the table it returns has the keys of the
\* graph.
C17_NegativeAccepted ==
    \A p \in Invocations :
        NegativeCall(p) =>
            /\ ~Failed(p)
            /\ Returned(p) => DOMAIN result[p] = Keys(GraphOf(p))

\* C17: the function validates no weight: on a graph with a negative edge
\* weight, start present and every neighbour a key, the call raises no error,
\* terminates, and returns a table over the graph's vertices (whose values
\* may lie above the least path weight: C17_Witness).
C17_NoWeightValidation ==
    /\ []C17_NegativeAccepted
    /\ NegativeCall(1) ~> Returned(1)

\* The call on {'A': {'B': 0, 'C': 0}, 'B': {}, 'C': {'B': -1}} from 'A'
\* returned, B popped before C as the tuple order has it: the table gives B
\* the weight 0, above the weight -1 of the path over C.
C17_Witness ==
    /\ NegativeCall(1)
    /\ Returned(1)
    /\ start[1] = "A"
    /\ Keys(GraphOf(1)) = {"A", "B", "C"}
    /\ EdgesOf(GraphOf(1)) = {<<"A", "B">>, <<"A", "C">>, <<"C", "B">>}
    /\ GraphOf(1)["A"]["B"] = 0 /\ GraphOf(1)["A"]["C"] = 0
    /\ GraphOf(1)["C"]["B"] = -1
    /\ result[1]["B"] = 0
    /\ result[1]["B"] > ShortestDistance(GraphOf(1), "A", "B")

\* C18: for items of positive cost and non-negative calories and a budget
\* that is not negative, dynamic_programming returns a set of the items
\* whose total cost is at most the budget and whose total calories are the
\* most any set within the budget has; the backtracking pass finds a set
\* that attains dp[n][budget].
C18_SelectionIsOptimal ==
    dp_pc = "done" =>
        /\ selected_items \subseteq DOMAIN dp_items
        /\ Total(dp_items, selected_items, "cost") <= dp_budget
        /\ Total(dp_items, selected_items, "calories")
             = BestCalories(dp_items, dp_budget)
        /\ Total(dp_items, selected_items, "calories")
             = dp[Len(dp_items)][dp_budget]

\* The call returned a selection that takes some of three items and leaves
\* one that has calories and that the budget alone would pay for.
C18_Witness ==
    /\ dp_pc = "done"
    /\ Len(dp_items) = MaxItems
    /\ Cardinality(selected_items) >= 2
    /\ \E i \in DOMAIN dp_items \ selected_items :
        /\ dp_items[i].calories > 0
        /\ dp_items[i].cost <= dp_budget

=============================================================================
